---- MODULE Spec2Model ----
(***************************************************************************)
(* Attribute/topic synchronisation over MQTT: the three scripts of the     *)
(* repository, ppc1.py (MQTTHandler + MQTTEngineEntity), ppc.py            *)
(* (MQTTHandler with a periodic publish thread) and ems_mqtt.py            *)
(* (MqttCommunicationManager).  The variable prog says which script runs.  *)
(*                                                                         *)
(* Python dicts are insertion-ordered: a dict is a sequence of             *)
(* <<key, value>> pairs with distinct keys.  A topic string is the         *)
(* sequence of its '/'-separated segments, so the empty sequence is the    *)
(* empty (falsy) string and str.split('/') is the identity on it.          *)
(***************************************************************************)
EXTENDS Integers, Sequences, FiniteSets, TLC

VARIABLES prog,          \* "ppc1", "ppc" or "ems": the script that runs
          config,        \* ppc1: handler._config, ppc: handler.config
          data,          \* handler.data
          last_update,   \* handler.last_update_time (TNone is None)
          entities,      \* ppc1: the MQTTEngineEntity instances
          objects,       \* ems: manager.objects
          heap,          \* ems: the attributes of the registered Python objects
          conn,          \* paho client: "disconnected", "connecting", "connected", "lost"
          subs,          \* topics the broker holds a subscription for
          loop,          \* paho network loop thread is running
          threads,       \* periodic publish threads ever started
          publish_thread,\* ppc: self.publish_thread, ems: self.thread (0: unset)
          stop_flag,     \* ppc: _stop_event is set
          running,       \* ems: self.running
          mainpc,        \* main thread: "idle", "join" (inside stop), "stopped"
          now,           \* time.time()
          nops,          \* calls the main thread has made so far
          op,            \* the call made by the last step, with its arguments
          calls,         \* bus-client calls issued by the last step
          net            \* ppc: the network thread inside on_message, and the
                         \* handler's publications the broker has yet to deliver

vars == <<prog, config, data, last_update, entities, objects, heap, conn, subs,
          loop, threads, publish_thread, stop_flag, running, mainpc, now, nops,
          op, calls, net>>

----------------------------------------------------------------------------
(* Bounds *)
MaxOps == 3
MaxTime == 2

(* Python values: None, a number, a string *)
None == [tag |-> "none", s |-> ""]
Num(s) == [tag |-> "num", s |-> s]
Str(s) == [tag |-> "str", s |-> s]
V1 == Num("1")
VX == Str("x")
(* a value json.dumps cannot encode (a set, an object) *)
VObj == [tag |-> "obj", s |-> ""]
TNone == 0

Attrs == {"a1", "a2"}
NoAttr == ""
T1 == <<"t1">>
T2 == <<"site", "t2">>
T3 == <<"t3">>
NoTopic == <<>>
Topics == {T1, T2}
AllTopics == {T1, T2, T3}
WriteValues == {V1, VX}
PpcWriteValues == {V1, VObj}

----------------------------------------------------------------------------
(* dict *)
Has(d, k) == \E i \in 1..Len(d) : d[i][1] = k
Idx(d, k) == CHOOSE i \in 1..Len(d) : d[i][1] = k
Get(d, k, dflt) == IF Has(d, k) THEN d[Idx(d, k)][2] ELSE dflt
Put(d, k, v) == IF Has(d, k) THEN [d EXCEPT ![Idx(d, k)] = <<k, v>>]
                ELSE Append(d, <<k, v>>)
Keys(d) == {d[i][1] : i \in 1..Len(d)}
Del(d, k) == SelectSeq(d, LAMBDA e : e[1] # k)

(* Codec: json.dumps / bytes.decode + json.loads *)
InvalidUtf8 == "\\xff"
NumLits == {"1"}
StrBodies == {"x", "1"}
Quote(s) == "\"" \o s \o "\""
Payloads == {"1", "null", "x", Quote("x"), InvalidUtf8}

TypeError == "TypeError"
json_dumps(v) ==
  IF v.tag = "obj" THEN TypeError
  ELSE IF v.tag = "none" THEN "null"
  ELSE IF v.tag = "num" THEN v.s
  ELSE Quote(v.s)

JSONDecodeError == [tag |-> "JSONDecodeError", s |-> ""]
json_loads(w) ==
  IF w = "null" THEN None
  ELSE IF w \in NumLits THEN Num(w)
  ELSE IF \E s \in StrBodies : w = Quote(s)
       THEN Str(CHOOSE s \in StrBodies : w = Quote(s))
  ELSE JSONDecodeError

decode(w) == IF json_loads(w) = JSONDecodeError THEN Str(w) ELSE json_loads(w)

----------------------------------------------------------------------------
(* The bus client (paho): a call is logged with whether it took effect.    *)
(* subscribe and publish (QoS 0) return MQTT_ERR_NO_CONN and do nothing    *)
(* while the client is not connected.                                      *)
(* the network thread outside on_message, nothing in flight: pc is the     *)
(* thread's position, attr the attribute on_message found, echo the        *)
(* handler's own publications the broker has yet to deliver back, inbound  *)
(* the values external publishers set and no local write replaced          *)
NetIdle == [pc |-> "idle", attr |-> NoAttr, echo |-> <<>>, inbound |-> <<>>]

H == [config |-> config, data |-> data, last_update |-> last_update,
      conn |-> conn, subs |-> subs, calls |-> <<>>]

client_subscribe(h, topic) ==
  [h EXCEPT !.calls = Append(@, <<"subscribe", topic, h.conn = "connected">>),
            !.subs = IF h.conn = "connected" THEN @ \cup {topic} ELSE @]

client_publish(h, topic, payload) ==
  [h EXCEPT !.calls = Append(@, <<"publish", topic, payload, h.conn = "connected">>)]

----------------------------------------------------------------------------
(* ppc1.py: MQTTHandler *)
RECURSIVE ppc1_on_connect_loop(_, _)
ppc1_on_connect_loop(h, items) ==
  IF items = <<>> THEN h
  ELSE ppc1_on_connect_loop(client_subscribe(h, Head(items)[2]), Tail(items))

ppc1_on_connect(h, rc) == ppc1_on_connect_loop(h, h.config)

(* attribute_for with the unbound case falling back to the first entry *)
attribute_for_first(cfg, topic) ==
  IF \E i \in 1..Len(cfg) : cfg[i][2] = topic
  THEN cfg[CHOOSE i \in 1..Len(cfg) :
             /\ cfg[i][2] = topic
             /\ \A j \in 1..(i - 1) : cfg[j][2] # topic][1]
  ELSE IF Len(cfg) > 0 THEN cfg[1][1] ELSE NoAttr

(* next((a for a, t in config.items() if t == topic), None) *)
attribute_for(cfg, topic) ==
  IF \E i \in 1..Len(cfg) : cfg[i][2] = topic
  THEN cfg[CHOOSE i \in 1..Len(cfg) :
             /\ cfg[i][2] = topic
             /\ \A j \in 1..(i - 1) : cfg[j][2] # topic][1]
  ELSE NoAttr

ppc1_on_message(h, topic, payload, t) ==
  IF payload = InvalidUtf8 THEN h
  ELSE LET attr == attribute_for(h.config, topic) IN
       IF attr # NoAttr
       THEN [h EXCEPT !.data = Put(@, attr, decode(payload)),
                      !.last_update = Put(@, attr, t)]
       ELSE h

(* add_config that registers without subscribing *)
RECURSIVE add_config_nosubscribe(_, _)
add_config_nosubscribe(h, new_config) ==
  IF new_config = <<>> THEN h
  ELSE LET attr == Head(new_config)[1]
           topic == Head(new_config)[2]
           h1 == [h EXCEPT !.config = Put(@, attr, topic),
                           !.data = Put(@, attr, None),
                           !.last_update = Put(@, attr, TNone)]
       IN add_config_nosubscribe(h1, Tail(new_config))

RECURSIVE add_config(_, _)
add_config(h, new_config) ==
  IF new_config = <<>> THEN h
  ELSE LET attr == Head(new_config)[1]
           topic == Head(new_config)[2]
           h1 == [h EXCEPT !.config = Put(@, attr, topic),
                           !.data = Put(@, attr, None),
                           !.last_update = Put(@, attr, TNone)]
       IN add_config(client_subscribe(h1, topic), Tail(new_config))

(* ppc1.py: MQTTEngineEntity; s = [h |-> handler, e |-> entity] *)
RECURSIVE initialize_defaults(_, _)
initialize_defaults(s, defaults) ==
  IF defaults = <<>> THEN s
  ELSE LET attr == Head(defaults)[1]
           value == Head(defaults)[2]
           h1 == [s.h EXCEPT !.data = Put(@, attr, value)]
           topic == Get(s.e.config, attr, NoTopic)
           h2 == IF topic # NoTopic
                 THEN client_publish(h1, topic, json_dumps(value))
                 ELSE h1
           e1 == [s.e EXCEPT !.dict = Put(@, attr, value)]
       IN initialize_defaults([h |-> h2, e |-> e1], Tail(defaults))

entity_init(h, cfg, defaults) ==
  initialize_defaults([h |-> add_config(h, cfg),
                       e |-> [config |-> cfg, dict |-> <<>>]], defaults)

(* __setattr__ that stores without publishing *)
setattr_nopublish(s, name, value) ==
  LET h1 == IF Has(s.e.config, name)
            THEN [s.h EXCEPT !.data = Put(@, name, value)]
            ELSE s.h
  IN [h |-> h1, e |-> [s.e EXCEPT !.dict = Put(@, name, value)]]

setattr(s, name, value) ==
  LET h1 == IF Has(s.e.config, name)
            THEN LET hd == [s.h EXCEPT !.data = Put(@, name, value)]
                     topic == Get(hd.config, name, NoTopic)
                 IN IF topic # NoTopic
                    THEN client_publish(hd, topic, json_dumps(value))
                    ELSE hd
            ELSE s.h
  IN [h |-> h1, e |-> [s.e EXCEPT !.dict = Put(@, name, value)]]

AttributeError == [tag |-> "AttributeError", s |-> ""]
getattr(h, e, name) ==
  IF Has(e.dict, name) THEN Get(e.dict, name, None)
  ELSE IF Has(h.data, name) THEN Get(h.data, name, None)
  ELSE AttributeError

----------------------------------------------------------------------------
(* ppc1.py: the steps of the script *)
EntityConfigs == { <<<<"a1", T1>>>>, <<<<"a1", T1>>, <<"a2", T2>>>> }
EntityDefaults == { <<>>, <<<<"a1", V1>>>>, <<<<"a2", VX>>>> }
AddConfigs == { <<<<"a1", T1>>>>, <<<<"a2", T1>>>> }
Ppc1InitConfigs == { <<>> }

NoneDict(cfg, v) == [i \in 1..Len(cfg) |-> <<cfg[i][1], v>>]

SetHandler(h) ==
  /\ config' = h.config
  /\ data' = h.data
  /\ last_update' = h.last_update
  /\ subs' = h.subs
  /\ calls' = h.calls

(* a call made by the main thread, which is not blocked inside stop(); the *)
(* script makes at most MaxOps calls                                       *)
MainCall ==
  /\ mainpc # "join"
  /\ nops < MaxOps
  /\ nops' = nops + 1

Ppc1Init ==
  /\ prog = "ppc1"
  /\ config \in Ppc1InitConfigs
  /\ data = NoneDict(config, None)
  /\ last_update = NoneDict(config, TNone)
  /\ entities = <<>>
  /\ objects = <<>>
  /\ heap = <<>>
  /\ conn = "disconnected"
  /\ subs = {}
  /\ loop = FALSE
  /\ threads = <<>>
  /\ publish_thread = 0
  /\ stop_flag = FALSE
  /\ running = FALSE
  /\ mainpc = "idle"
  /\ now = 1
  /\ nops = 0
  /\ op = <<"init">>
  /\ calls = <<>>
  /\ net = NetIdle

Ppc1_NewEntity(cfg, defaults) ==
  /\ prog = "ppc1"
  /\ LET s == entity_init(H, cfg, defaults) IN
       /\ SetHandler(s.h)
       /\ entities' = Append(entities, s.e)
  /\ op' = <<"MQTTEngineEntity", Len(entities) + 1>>
  /\ MainCall
  /\ mainpc' = "idle"
  /\ UNCHANGED <<prog, net, objects, heap, conn, loop, threads, publish_thread, stop_flag, running, now>>

Ppc1_AddConfig(cfg) ==
  /\ prog = "ppc1"
  /\ SetHandler(add_config(H, cfg))
  /\ op' = <<"add_config", cfg>>
  /\ MainCall
  /\ mainpc' = "idle"
  /\ UNCHANGED <<prog, net, entities, objects, heap, conn, loop, threads, publish_thread,
                 stop_flag, running, now>>

Ppc1_SetAttr(i, name, value) ==
  /\ prog = "ppc1"
  /\ i \in 1..Len(entities)
  /\ LET s == setattr([h |-> H, e |-> entities[i]], name, value) IN
       /\ SetHandler(s.h)
       /\ entities' = [entities EXCEPT ![i] = s.e]
  /\ op' = <<"setattr", i, name>>
  /\ MainCall
  /\ mainpc' = "idle"
  /\ UNCHANGED <<prog, net, objects, heap, conn, loop, threads, publish_thread, stop_flag, running, now>>

Ppc1_Start ==
  /\ prog = "ppc1"
  /\ conn' = "connecting"
  /\ subs' = {}
  /\ loop' = TRUE
  /\ op' = <<"start">>
  /\ calls' = <<>>
  /\ MainCall
  /\ mainpc' = "idle"
  /\ UNCHANGED <<prog, net, config, data, last_update, entities, objects, heap, threads,
                 publish_thread, stop_flag, running, now>>

Ppc1_Stop ==
  /\ prog = "ppc1"
  /\ loop' = FALSE
  /\ conn' = "disconnected"
  /\ subs' = {}
  /\ op' = <<"stop">>
  /\ calls' = <<>>
  /\ MainCall
  /\ mainpc' = "stopped"
  /\ UNCHANGED <<prog, net, config, data, last_update, entities, objects, heap, threads,
                 publish_thread, stop_flag, running, now>>

(* network thread *)
Ppc1_OnConnect(rc) ==
  /\ prog = "ppc1"
  /\ loop
  /\ conn = "connecting"
  /\ LET c == IF rc = 0 THEN "connected" ELSE "lost"
         h == ppc1_on_connect([H EXCEPT !.conn = c], rc) IN
       /\ conn' = c
       /\ SetHandler(h)
  /\ op' = <<"on_connect", rc>>
  /\ UNCHANGED <<prog, net, entities, objects, heap, loop, threads, publish_thread,
                 stop_flag, running, mainpc, now, nops>>

(* the broker delivers a message; time.time() is now, and the clock has    *)
(* advanced by the next delivery                                           *)
Ppc1_OnMessage(topic, payload) ==
  /\ prog = "ppc1"
  /\ loop
  /\ conn = "connected"
  /\ now <= MaxTime
  /\ now' = now + 1
  /\ SetHandler(ppc1_on_message(H, topic, payload, now))
  /\ op' = <<"on_message", topic>>
  /\ UNCHANGED <<prog, net, entities, objects, heap, conn, loop, threads, publish_thread,
                 stop_flag, running, mainpc, nops>>

(* the connection is lost (clean session: the broker drops the             *)
(* subscriptions) and the loop thread reconnects                           *)
ConnectionLost ==
  /\ loop
  /\ conn = "connected"
  /\ conn' = "lost"
  /\ subs' = {}
  /\ op' = <<"connection_lost">>
  /\ calls' = <<>>
  /\ UNCHANGED <<prog, net, config, data, last_update, entities, objects, heap, loop,
                 threads, publish_thread, stop_flag, running, mainpc, now, nops>>

Reconnect ==
  /\ loop
  /\ conn = "lost"
  /\ conn' = "connecting"
  /\ op' = <<"reconnect">>
  /\ calls' = <<>>
  /\ UNCHANGED <<prog, net, config, data, last_update, entities, objects, heap, subs, loop,
                 threads, publish_thread, stop_flag, running, mainpc, now, nops>>

RCs == {0, 5}

----------------------------------------------------------------------------
(* ppc.py: MQTTHandler *)
RECURSIVE ppc_on_connect_loop(_, _)
ppc_on_connect_loop(h, items) ==
  IF items = <<>> THEN h
  ELSE ppc_on_connect_loop(client_subscribe(h, Head(items)[2]), Tail(items))

ppc_on_connect(h, rc) == ppc_on_connect_loop(h, h.config)

(* on_message: the attribute it finds (none when decoding raised), the     *)
(* statement that stores the value, the statement that stores the time     *)
ppc_on_message_attr(h, topic, payload) ==
  IF payload = InvalidUtf8 THEN NoAttr ELSE attribute_for(h.config, topic)

ppc_on_message_store(h, topic, payload) ==
  LET attr == ppc_on_message_attr(h, topic, payload) IN
    IF attr # NoAttr THEN [h EXCEPT !.data = Put(@, attr, decode(payload))]
    ELSE h

ppc_on_message_stamp(h, attr, t) ==
  IF attr # NoAttr THEN [h EXCEPT !.last_update = Put(@, attr, t)] ELSE h

ppc_on_message(h, topic, payload, t) ==
  ppc_on_message_stamp(ppc_on_message_store(h, topic, payload),
                       ppc_on_message_attr(h, topic, payload), t)

(* a periodic publish thread: pc is its position, i and j its loop         *)
(* indices, n and cur the dict size and the item its iterator holds        *)
NewThread(pc) == [pc |-> pc, i |-> 0, j |-> 0, n |-> 0, cur |-> <<>>, raised |-> ""]
Alive(k) == threads[k].pc # "done"

(* one step of publish_background in thread th: the while test, or one     *)
(* iteration of the for loop (the last one followed by the sleep); an      *)
(* exception of json.dumps is caught inside the iteration                  *)
publish_background(h, th, stopped) ==
  IF th.pc = "while"
  THEN [h |-> h,
        th |-> IF stopped THEN [th EXCEPT !.pc = "done"]
               ELSE IF Len(h.config) = 0 THEN th
               ELSE [th EXCEPT !.pc = "for", !.i = 1]]
  ELSE LET attr == h.config[th.i][1]
           topic == h.config[th.i][2]
           value == Get(h.data, attr, None)
       IN [h |-> IF value # None /\ json_dumps(value) # TypeError
                 THEN client_publish(h, topic, json_dumps(value))
                 ELSE h,
           th |-> IF th.i < Len(h.config) THEN [th EXCEPT !.i = th.i + 1]
                  ELSE [th EXCEPT !.pc = "while", !.i = 0]]

PpcConfigs == { <<<<"a1", T1>>, <<"a2", T2>>>>, <<<<"a1", T1>>, <<"a2", T1>>>> }

PpcInit ==
  /\ prog = "ppc"
  /\ config \in PpcConfigs
  /\ data = NoneDict(config, None)
  /\ last_update = NoneDict(config, TNone)
  /\ entities = <<>>
  /\ objects = <<>>
  /\ heap = <<>>
  /\ conn = "disconnected"
  /\ subs = {}
  /\ loop = FALSE
  /\ threads = <<>>
  /\ publish_thread = 0
  /\ stop_flag = FALSE
  /\ running = FALSE
  /\ mainpc = "idle"
  /\ now = 1
  /\ nops = 0
  /\ op = <<"init">>
  /\ calls = <<>>
  /\ net = NetIdle

Ppc_Start ==
  /\ prog = "ppc"
  /\ MainCall
  /\ mainpc' = "idle"
  /\ conn' = "connecting"
  /\ subs' = {}
  /\ loop' = TRUE
  /\ threads' = Append(threads, NewThread("while"))
  /\ publish_thread' = Len(threads) + 1
  /\ op' = <<"start">>
  /\ calls' = <<>>
  /\ UNCHANGED <<prog, net, config, data, last_update, entities, objects, heap,
                 stop_flag, running, now>>

(* stop(): sets the event and blocks in publish_thread.join(); without a   *)
(* publish_thread attribute the join raises AttributeError                 *)
Ppc_Stop ==
  /\ prog = "ppc"
  /\ MainCall
  /\ stop_flag' = TRUE
  /\ IF publish_thread = 0
     THEN mainpc' = "idle" /\ op' = <<"stop", "AttributeError">>
     ELSE mainpc' = "join" /\ op' = <<"stop", "join">>
  /\ calls' = <<>>
  /\ UNCHANGED <<prog, net, config, data, last_update, entities, objects, heap, conn,
                 subs, loop, threads, publish_thread, running, now>>

Ppc_StopReturn ==
  /\ prog = "ppc"
  /\ mainpc = "join"
  /\ ~Alive(publish_thread)
  /\ loop' = FALSE
  /\ conn' = "disconnected"
  /\ subs' = {}
  /\ mainpc' = "stopped"
  /\ op' = <<"stop", "return">>
  /\ calls' = <<>>
  /\ UNCHANGED <<prog, net, config, data, last_update, entities, objects, heap,
                 threads, publish_thread, stop_flag, running, now, nops>>

(* the script stores into handler.data directly *)
main_write(attr, value) ==
  /\ prog = "ppc"
  /\ MainCall
  /\ mainpc' = "idle"
  /\ Has(data, attr)
  /\ data' = Put(data, attr, value)
  /\ op' = <<"data", attr>>
  /\ calls' = <<>>
  /\ UNCHANGED <<prog, config, last_update, entities, objects, heap, conn, subs,
                 loop, threads, publish_thread, stop_flag, running, now>>

Ppc_MainWrite(attr, value) == main_write(attr, value) /\ UNCHANGED net

publish_thread_step(k) ==
  /\ prog = "ppc"
  /\ k \in 1..Len(threads)
  /\ Alive(k)
  /\ LET r == publish_background(H, threads[k], stop_flag) IN
       /\ SetHandler(r.h)
       /\ threads' = [threads EXCEPT ![k] = r.th]
  /\ op' = <<"publish_background", k>>
  /\ UNCHANGED <<prog, entities, objects, heap, conn, loop, publish_thread,
                 stop_flag, running, mainpc, now, nops>>

Ppc_PublishBackground(k) == publish_thread_step(k) /\ UNCHANGED net

Ppc_OnConnect(rc) ==
  /\ prog = "ppc"
  /\ loop
  /\ conn = "connecting"
  /\ LET c == IF rc = 0 THEN "connected" ELSE "lost"
         h == ppc_on_connect([H EXCEPT !.conn = c], rc) IN
       /\ conn' = c
       /\ SetHandler(h)
  /\ op' = <<"on_connect", rc>>
  /\ UNCHANGED <<prog, net, entities, objects, heap, loop, threads, publish_thread,
                 stop_flag, running, mainpc, now, nops>>

Ppc_OnMessage(topic, payload) ==
  /\ prog = "ppc"
  /\ loop
  /\ conn = "connected"
  /\ now <= MaxTime
  /\ now' = now + 1
  /\ SetHandler(ppc_on_message(H, topic, payload, now))
  /\ op' = <<"on_message", topic>>
  /\ UNCHANGED <<prog, net, entities, objects, heap, conn, loop, threads,
                 publish_thread, stop_flag, running, mainpc, nops>>

PpcNext ==
  \/ Ppc_Start
  \/ Ppc_Stop
  \/ Ppc_StopReturn
  \/ \E a \in Attrs, v \in PpcWriteValues : Ppc_MainWrite(a, v)
  \/ \E k \in 1..MaxOps : Ppc_PublishBackground(k)
  \/ \E rc \in RCs : Ppc_OnConnect(rc)
  \/ \E t \in AllTopics, p \in Payloads : Ppc_OnMessage(t, p)
  \/ ConnectionLost
  \/ Reconnect

PpcSpec == PpcInit /\ [][PpcNext]_vars

----------------------------------------------------------------------------
(* ppc.py with its threads interleaved statement by statement: the network *)
(* thread may be preempted between the two stores of on_message, and the   *)
(* broker delivers the handler's own publications back to it, because      *)
(* on_connect subscribes to the topics publish_background publishes on.    *)
MaxEcho == 1
ExternalPayloads == {"1", Quote("x"), InvalidUtf8}

(* the broker's copy of a publication made by the last step: queued for    *)
(* the handler when it holds a subscription for the topic                  *)
broker_echo(q, cs, sb) ==
  IF /\ cs # <<>>
     /\ cs[1][1] = "publish"
     /\ cs[1][4]
     /\ cs[1][2] \in sb
     /\ Len(q) < MaxEcho
  THEN Append(q, <<cs[1][2], cs[1][3]>>)
  ELSE q

(* on_message up to and including self.data[attr] = payload; src tells an  *)
(* external publication from the echo at the head of the queue             *)
on_message_store(topic, payload, src) ==
  /\ prog = "ppc"
  /\ loop
  /\ conn = "connected"
  /\ net.pc = "idle"
  /\ now <= MaxTime
  /\ LET attr == ppc_on_message_attr(H, topic, payload) IN
       /\ SetHandler(ppc_on_message_store(H, topic, payload))
       /\ now' = IF attr = NoAttr THEN now + 1 ELSE now
       /\ net' = [net EXCEPT
                    !.pc = IF attr = NoAttr THEN "idle" ELSE "stamp",
                    !.attr = attr,
                    !.echo = IF src = "echo" THEN Tail(@) ELSE @,
                    !.inbound = IF attr # NoAttr /\ src = "external"
                                THEN Put(@, attr, decode(payload)) ELSE @]
  /\ op' = <<"on_message", topic, src>>
  /\ UNCHANGED <<prog, entities, objects, heap, conn, loop, threads,
                 publish_thread, stop_flag, running, mainpc, nops>>

Ppc_External(topic, payload) == on_message_store(topic, payload, "external")

Ppc_Echo ==
  /\ net.echo # <<>>
  /\ on_message_store(Head(net.echo)[1], Head(net.echo)[2], "echo")

(* on_message: self.last_update_time[attr] = time.time() *)
Ppc_OnMessageStamp ==
  /\ prog = "ppc"
  /\ net.pc = "stamp"
  /\ SetHandler(ppc_on_message_stamp(H, net.attr, now))
  /\ now' = now + 1
  /\ net' = [net EXCEPT !.pc = "idle", !.attr = NoAttr]
  /\ op' = <<"on_message", "stamp">>
  /\ UNCHANGED <<prog, entities, objects, heap, conn, loop, threads,
                 publish_thread, stop_flag, running, mainpc, nops>>

Ppc_PublishBackgroundBroker(k) ==
  /\ publish_thread_step(k)
  /\ net' = [net EXCEPT !.echo = broker_echo(@, calls', subs)]

Ppc_MainWriteLocal(attr, value) ==
  /\ main_write(attr, value)
  /\ net' = [net EXCEPT !.inbound = Del(@, attr)]

(* the script calls start() once *)
Ppc_StartOnce == Ppc_Start /\ publish_thread = 0

PpcThreadNext ==
  \/ Ppc_StartOnce
  \/ \E rc \in RCs : Ppc_OnConnect(rc)
  \/ \E a \in Attrs, v \in PpcWriteValues : Ppc_MainWriteLocal(a, v)
  \/ \E k \in 1..MaxOps : Ppc_PublishBackgroundBroker(k)
  \/ \E t \in Topics, p \in ExternalPayloads : Ppc_External(t, p)
  \/ Ppc_Echo
  \/ Ppc_OnMessageStamp

PpcThreadSpec == PpcInit /\ [][PpcThreadNext]_vars

Ppc1Next ==
  \/ \E cfg \in EntityConfigs, d \in EntityDefaults : Ppc1_NewEntity(cfg, d)
  \/ \E cfg \in AddConfigs : Ppc1_AddConfig(cfg)
  \/ \E i \in 1..MaxOps, n \in Attrs, v \in WriteValues : Ppc1_SetAttr(i, n, v)
  \/ Ppc1_Start
  \/ Ppc1_Stop
  \/ \E rc \in RCs : Ppc1_OnConnect(rc)
  \/ \E t \in AllTopics, p \in Payloads : Ppc1_OnMessage(t, p)
  \/ ConnectionLost
  \/ Reconnect

Ppc1Spec == Ppc1Init /\ [][Ppc1Next]_vars

----------------------------------------------------------------------------
(* ems_mqtt.py: MqttCommunicationManager.  An object name or attribute     *)
(* name is a sequence of segments, and f"{obj_name}/{attr}" concatenates.  *)
P == <<"p">>
Q == <<"q">>
M == [objects |-> objects, heap |-> heap, conn |-> conn, subs |-> subs,
      calls |-> <<>>]

hasattr(m, obj, attr) == Has(m.heap[obj], attr)

RECURSIVE subscribe_attributes(_, _, _)
subscribe_attributes(m, obj_name, attributes) ==
  IF attributes = <<>> THEN m
  ELSE subscribe_attributes(client_subscribe(m, obj_name \o Head(attributes)),
                            obj_name, Tail(attributes))

add_object(m, obj_name, obj, attributes) ==
  LET m1 == [m EXCEPT !.objects =
                 Put(@, obj_name, [obj |-> obj, attributes |-> attributes])]
  IN IF m1.conn = "connected"
     THEN subscribe_attributes(m1, obj_name, attributes)
     ELSE m1

RECURSIVE ems_on_connect_loop(_, _)
ems_on_connect_loop(m, items) ==
  IF items = <<>> THEN m
  ELSE ems_on_connect_loop(
         subscribe_attributes(m, Head(items)[1], Head(items)[2].attributes),
         Tail(items))

ems_on_connect(m, rc) ==
  IF rc = 0 THEN ems_on_connect_loop(m, m.objects) ELSE m

ems_on_message(m, topic, payload) ==
  IF Len(topic) # 2 THEN m
  ELSE IF payload = InvalidUtf8 THEN m
  ELSE LET obj_name == <<topic[1]>>
           attr_name == <<topic[2]>>
           value == decode(payload)
       IN IF ~Has(m.objects, obj_name) THEN m
          ELSE LET obj_info == Get(m.objects, obj_name, <<>>) IN
               IF /\ \E k \in 1..Len(obj_info.attributes) :
                        obj_info.attributes[k] = attr_name
                  /\ hasattr(m, obj_info.obj, attr_name)
               THEN [m EXCEPT !.heap[obj_info.obj] = Put(@, attr_name, value)]
               ELSE m

(* one step of publish_attributes in thread th: fetching the next item of  *)
(* objects.items() (RuntimeError when the dict changed size), or one       *)
(* iteration of the inner loop (an exception of json.dumps is not caught   *)
(* and ends the thread)                                                    *)
publish_attributes(m, th) ==
  IF th.pc = "outer"
  THEN [m |-> m,
        th |-> IF Len(m.objects) # th.n
               THEN [th EXCEPT !.pc = "done", !.raised = "RuntimeError"]
               ELSE IF th.i > th.n
               THEN [th EXCEPT !.pc = "while", !.i = 0, !.n = 0]
               ELSE [th EXCEPT !.pc = "inner", !.j = 1,
                               !.cur = m.objects[th.i][2]]]
  ELSE LET attr == th.cur.attributes[th.j]
           obj_name == m.objects[th.i][1]
           payload == json_dumps(Get(m.heap[th.cur.obj], attr, None))
       IN [m |-> IF hasattr(m, th.cur.obj, attr) /\ payload # TypeError
                 THEN client_publish(m, obj_name \o attr, payload)
                 ELSE m,
           th |-> IF hasattr(m, th.cur.obj, attr) /\ payload = TypeError
                  THEN [th EXCEPT !.pc = "done", !.raised = TypeError]
                  ELSE IF th.j < Len(th.cur.attributes)
                  THEN [th EXCEPT !.j = th.j + 1]
                  ELSE [th EXCEPT !.pc = "outer", !.i = th.i + 1, !.j = 0,
                                  !.cur = <<>>]]

(* one step of _run_loop in thread th; lp is the network loop flag *)
run_loop(m, th, lp, run) ==
  IF th.pc = "loop_start"
  THEN [m |-> m, th |-> [th EXCEPT !.pc = "while"], lp |-> TRUE]
  ELSE IF th.pc = "while"
  THEN [m |-> m,
        th |-> IF run THEN [th EXCEPT !.pc = "outer", !.i = 1,
                                      !.n = Len(m.objects)]
               ELSE [th EXCEPT !.pc = "loop_stop"],
        lp |-> lp]
  ELSE IF th.pc = "loop_stop"
  THEN [m |-> m, th |-> [th EXCEPT !.pc = "done"], lp |-> FALSE]
  ELSE LET r == publish_attributes(m, th) IN
       [m |-> r.m, th |-> r.th, lp |-> lp]

Registrations == { [obj_name |-> <<"o1">>, obj |-> 1, attributes |-> <<P, Q>>],
                   [obj_name |-> <<"o1">>, obj |-> 2, attributes |-> <<P>>],
                   [obj_name |-> <<"o", "x">>, obj |-> 2, attributes |-> <<Q, Q>>] }
EmsTopics == { <<"o1", "p">>, <<"o1", "q">>, <<"o", "x", "q">>, <<"p">> }
EmsHeap == << <<<<P, V1>>>>, <<<<P, V1>>, <<Q, VObj>>>> >>

SetManager(m) ==
  /\ objects' = m.objects
  /\ heap' = m.heap
  /\ subs' = m.subs
  /\ calls' = m.calls

EmsInit ==
  /\ prog = "ems"
  /\ config = <<>>
  /\ data = <<>>
  /\ last_update = <<>>
  /\ entities = <<>>
  /\ objects = <<>>
  /\ heap = EmsHeap
  /\ conn = "disconnected"
  /\ subs = {}
  /\ loop = FALSE
  /\ threads = <<>>
  /\ publish_thread = 0
  /\ stop_flag = FALSE
  /\ running = FALSE
  /\ mainpc = "idle"
  /\ now = 1
  /\ nops = 0
  /\ op = <<"init">>
  /\ calls = <<>>
  /\ net = NetIdle

Ems_AddObject(obj_name, obj, attributes) ==
  /\ prog = "ems"
  /\ MainCall
  /\ mainpc' = "idle"
  /\ SetManager(add_object(M, obj_name, obj, attributes))
  /\ op' = <<"add_object", obj_name>>
  /\ UNCHANGED <<prog, net, config, data, last_update, entities, conn, loop, threads,
                 publish_thread, stop_flag, running, now>>

Ems_Start ==
  /\ prog = "ems"
  /\ MainCall
  /\ mainpc' = "idle"
  /\ running' = TRUE
  /\ conn' = "connecting"
  /\ subs' = {}
  /\ threads' = Append(threads, NewThread("loop_start"))
  /\ publish_thread' = Len(threads) + 1
  /\ op' = <<"start">>
  /\ calls' = <<>>
  /\ UNCHANGED <<prog, net, config, data, last_update, entities, objects, heap, loop,
                 stop_flag, now>>

(* stop(): clears running, disconnects and blocks in thread.join() *)
Ems_Stop ==
  /\ prog = "ems"
  /\ MainCall
  /\ running' = FALSE
  /\ conn' = "disconnected"
  /\ subs' = {}
  /\ IF publish_thread = 0
     THEN mainpc' = "stopped" /\ op' = <<"stop", "return">>
     ELSE mainpc' = "join" /\ op' = <<"stop", "join">>
  /\ calls' = <<>>
  /\ UNCHANGED <<prog, net, config, data, last_update, entities, objects, heap, loop,
                 threads, publish_thread, stop_flag, now>>

Ems_StopReturn ==
  /\ prog = "ems"
  /\ mainpc = "join"
  /\ ~Alive(publish_thread)
  /\ mainpc' = "stopped"
  /\ op' = <<"stop", "return">>
  /\ calls' = <<>>
  /\ UNCHANGED <<prog, net, config, data, last_update, entities, objects, heap, conn,
                 subs, loop, threads, publish_thread, stop_flag, running, now,
                 nops>>

Ems_RunLoop(k) ==
  /\ prog = "ems"
  /\ k \in 1..Len(threads)
  /\ Alive(k)
  /\ LET r == run_loop(M, threads[k], loop, running) IN
       /\ SetManager(r.m)
       /\ threads' = [threads EXCEPT ![k] = r.th]
       /\ loop' = r.lp
  /\ op' = <<"run_loop", k>>
  /\ UNCHANGED <<prog, net, config, data, last_update, entities, conn,
                 publish_thread, stop_flag, running, mainpc, now, nops>>

Ems_OnConnect(rc) ==
  /\ prog = "ems"
  /\ loop
  /\ conn = "connecting"
  /\ LET c == IF rc = 0 THEN "connected" ELSE "lost"
         m == ems_on_connect([M EXCEPT !.conn = c], rc) IN
       /\ conn' = c
       /\ SetManager(m)
  /\ op' = <<"on_connect", rc>>
  /\ UNCHANGED <<prog, net, config, data, last_update, entities, loop, threads,
                 publish_thread, stop_flag, running, mainpc, now, nops>>

Ems_OnMessage(topic, payload) ==
  /\ prog = "ems"
  /\ loop
  /\ conn = "connected"
  /\ now <= MaxTime
  /\ now' = now + 1
  /\ SetManager(ems_on_message(M, topic, payload))
  /\ op' = <<"on_message", topic>>
  /\ UNCHANGED <<prog, net, config, data, last_update, entities, conn, loop, threads,
                 publish_thread, stop_flag, running, mainpc, nops>>

EmsNext ==
  \/ \E r \in Registrations : Ems_AddObject(r.obj_name, r.obj, r.attributes)
  \/ Ems_Start
  \/ Ems_Stop
  \/ Ems_StopReturn
  \/ \E k \in 1..MaxOps : Ems_RunLoop(k)
  \/ \E rc \in RCs : Ems_OnConnect(rc)
  \/ \E t \in EmsTopics, p \in Payloads : Ems_OnMessage(t, p)
  \/ ConnectionLost
  \/ Reconnect

EmsSpec == EmsInit /\ [][EmsNext]_vars

----------------------------------------------------------------------------
Init == Ppc1Init \/ PpcInit \/ EmsInit

Next ==
  \/ \E cfg \in EntityConfigs, d \in EntityDefaults : Ppc1_NewEntity(cfg, d)
  \/ \E cfg \in AddConfigs : Ppc1_AddConfig(cfg)
  \/ \E i \in 1..MaxOps, n \in Attrs, v \in WriteValues : Ppc1_SetAttr(i, n, v)
  \/ Ppc1_Start
  \/ Ppc1_Stop
  \/ \E rc \in RCs : Ppc1_OnConnect(rc)
  \/ \E t \in AllTopics, p \in Payloads : Ppc1_OnMessage(t, p)
  \/ Ppc_Start
  \/ Ppc_Stop
  \/ Ppc_StopReturn
  \/ \E a \in Attrs, v \in PpcWriteValues : Ppc_MainWrite(a, v)
  \/ \E k \in 1..MaxOps : Ppc_PublishBackground(k)
  \/ \E rc \in RCs : Ppc_OnConnect(rc)
  \/ \E t \in AllTopics, p \in Payloads : Ppc_OnMessage(t, p)
  \/ \E r \in Registrations : Ems_AddObject(r.obj_name, r.obj, r.attributes)
  \/ Ems_Start
  \/ Ems_Stop
  \/ Ems_StopReturn
  \/ \E k \in 1..MaxOps : Ems_RunLoop(k)
  \/ \E rc \in RCs : Ems_OnConnect(rc)
  \/ \E t \in EmsTopics, p \in Payloads : Ems_OnMessage(t, p)
  \/ ConnectionLost
  \/ Reconnect

Spec == Init /\ [][Next]_vars

(* the network thread handles the CONNACK and reconnects after a loss *)
Ppc1FairSpec ==
  /\ Ppc1Init
  /\ [][Ppc1Next]_vars
  /\ WF_vars(\E rc \in RCs : Ppc1_OnConnect(rc))
  /\ WF_vars(Reconnect /\ prog = "ppc1")

----------------------------------------------------------------------------
(* Properties *)
EntityRead(i, name) == getattr(H, entities[i], name)
BoundTopics ==
  IF prog = "ems"
  THEN UNION {{objects[i][1] \o objects[i][2].attributes[k] :
                  k \in 1..Len(objects[i][2].attributes)} :
               i \in 1..Len(objects)}
  ELSE {config[i][2] : i \in 1..Len(config)}
CallsOn(kind, topic) ==
  {k \in 1..Len(calls) : calls[k][1] = kind /\ calls[k][2] = topic}

(* C1: after on_message has processed an inbound message on the topic      *)
(* bound to attribute a, reading a through an entity that declares a       *)
(* returns the decoded payload, also when a has a default or was written.  *)
C1_ReadsReflectStore ==
  [][\A t \in AllTopics, p \in Payloads :
       (/\ Ppc1_OnMessage(t, p)
        /\ p # InvalidUtf8
        /\ attribute_for(config, t) # NoAttr)
       => \A i \in 1..Len(entities) :
            Has(entities[i].config, attribute_for(config, t))
            => EntityRead(i, attribute_for(config, t))' = decode(p)]_vars

(* C2: a write of v to a declared attribute a through an entity leaves v   *)
(* in the store for a and issues exactly one publish, of json.dumps(v) on  *)
(* the topic bound to a, within the write itself.                          *)
C2_WritePublishesOnce ==
  [][\A i \in 1..MaxOps, n \in Attrs, v \in WriteValues :
       (Ppc1_SetAttr(i, n, v) /\ Has(entities[i].config, n))
       => /\ Has(data', n) /\ Get(data', n, None) = v
          /\ Get(config', n, NoTopic) # NoTopic
          /\ calls' = << <<"publish", Get(config', n, NoTopic), json_dumps(v),
                           conn = "connected">> >>]_vars

C2_Witness ==
  /\ op[1] = "setattr"
  /\ Has(entities[op[2]].config, op[3])
  /\ Get(data, op[3], None) = VX
  /\ calls = << <<"publish", Get(config, op[3], NoTopic), Quote("x"), TRUE>> >>

(* C3: a default seeded by an entity constructed before the client is      *)
(* connected is not lost: once the client is connected the default is      *)
(* eventually published to the broker on the attribute's topic.            *)
SeededOffline(a, v, t) ==
  /\ op[1] = "MQTTEngineEntity"
  /\ conn # "connected"
  /\ Get(entities[op[2]].config, a, NoTopic) = t
  /\ Has(entities[op[2]].dict, a)
  /\ Get(entities[op[2]].dict, a, None) = v
Delivered(t, v) ==
  \E k \in 1..Len(calls) : calls[k] = <<"publish", t, json_dumps(v), TRUE>>
C3_DefaultReachesBus ==
  \A a \in Attrs, v \in WriteValues, t \in Topics :
    [](SeededOffline(a, v, t) => [](conn = "connected" => <>Delivered(t, v)))

(* C4: a registration made while the client is connected (add_config,      *)
(* entity construction, add_object) returns with every registered topic    *)
(* subscribed and, for add_config, bound to an attribute.                  *)
Registered(cfg) ==
  \A k \in 1..Len(cfg) :
    cfg[k][2] \in subs' /\ attribute_for(config', cfg[k][2]) # NoAttr
C5_ResubscribeExactlyOnce ==
  op = <<"on_connect", 0>>
  => /\ \A t \in BoundTopics : Cardinality(CallsOn("subscribe", t)) = 1
     /\ \A k \in 1..Len(calls) : calls[k][2] \in BoundTopics

(* C6: while the handler that backs the entities is started and not        *)
(* stopped, every registered attribute with a stored value is published    *)
(* again by the periodic publisher.                                        *)
PeriodicPublish(a) ==
  /\ op[1] \in {"publish_background", "run_loop"}
  /\ CallsOn("publish", Get(config, a, NoTopic)) # {}
C6_PeriodicRepublish ==
  \A a \in Attrs :
    []((loop /\ Has(config, a) /\ Get(data, a, None) # None)
       => <>(PeriodicPublish(a) \/ ~loop \/ Get(data, a, None) = None))

(* C7: once stop() has returned no periodic publish thread is alive.       *)
C7_NoThreadAfterStop ==
  mainpc = "stopped" => \A k \in 1..Len(threads) : ~Alive(k)

(* C8: on_message on a topic bound to no attribute leaves every stored     *)
(* value and timestamp as it was, and on a bound topic changes only the    *)
(* entry of the attribute the topic is bound to.                           *)
C8_OnlyBoundEntryChanges ==
  [][\A t \in AllTopics, p \in Payloads :
       (Ppc_OnMessage(t, p) \/ Ppc1_OnMessage(t, p))
       => LET a == attribute_for(config, t) IN
            /\ config' = config
            /\ a = NoAttr => data' = data /\ last_update' = last_update
            /\ a # NoAttr =>
                 /\ Get(config, a, NoTopic) = t
                 /\ Keys(data') = Keys(data)
                 /\ \A b \in Keys(data) \ {a} :
                      /\ Get(data', b, None) = Get(data, b, None)
                      /\ Get(last_update', b, TNone) = Get(last_update, b, TNone)]_vars

C8_Witness ==
  /\ prog \in {"ppc", "ppc1"}
  /\ op[1] = "on_message"
  /\ attribute_for(config, op[2]) = NoAttr
  /\ \E a \in Keys(data) : Get(data, a, None) # None

(* C9: a write through an entity to a name the entity does not declare     *)
(* stores nothing, in the entity or in the store, and publishes nothing.   *)
C9_UndeclaredWriteRejected ==
  [][\A i \in 1..MaxOps, n \in Attrs, v \in WriteValues :
       (Ppc1_SetAttr(i, n, v) /\ ~Has(entities[i].config, n))
       => entities' = entities /\ data' = data /\ calls' = <<>>]_vars

(* C10: at most one periodic publish thread of a handler is alive in       *)
(* every reachable state.                                                  *)
C10_SinglePublisher ==
  Cardinality({k \in 1..Len(threads) : Alive(k)}) <= 1

(* C11: a local write of a declared attribute a through an entity stamps   *)
(* the time: afterwards last_update(a) is not None and not older than      *)
(* before the write.                                                       *)
C11_LocalWriteStamps ==
  [][\A i \in 1..MaxOps, n \in Attrs, v \in WriteValues :
       (Ppc1_SetAttr(i, n, v) /\ Has(entities[i].config, n))
       => /\ Get(last_update', n, TNone) # TNone
          /\ Get(last_update', n, TNone) >= Get(last_update, n, TNone)]_vars

(* C12: add_config of attributes that are already registered with the same *)
(* topics leaves the registry, the stored values and the timestamps as     *)
(* they were.                                                              *)
SameBinding(cfg) ==
  \A k \in 1..Len(cfg) : Get(config, cfg[k][1], NoTopic) = cfg[k][2]
C12_ReRegistrationIdempotent ==
  [][\A cfg \in AddConfigs :
       (Ppc1_AddConfig(cfg) /\ SameBinding(cfg))
       => config' = config /\ data' = data /\ last_update' = last_update]_vars

(* C13: in every reachable state of ppc1.py no two attributes of the       *)
(* registry are bound to the same topic.                                   *)
C13_TopicBoundOnce ==
  prog = "ppc1"
  => \A i, j \in 1..Len(config) : i # j => config[i][2] # config[j][2]

(* C14: in every reachable state of ppc1.py every attribute with an entry  *)
(* in handler.data has a topic binding and a last-update entry.            *)
C14_StoreKeysRegistered ==
  prog = "ppc1"
  => Keys(data) \subseteq Keys(config) /\ Keys(data) \subseteq Keys(last_update)

(* C15: while the client is connected the subscribed topics are exactly    *)
(* the topics bound in the registry.                                       *)
C15_SubscriptionsEqualBindings ==
  conn = "connected" => subs = BoundTopics

(* C18: an inbound message on the topic of a registered attribute that the *)
(* object has updates that attribute, whatever the number of '/' in the    *)
(* topic.                                                                  *)
RegisteredAt(i, k, t) ==
  /\ objects[i][1] \o objects[i][2].attributes[k] = t
  /\ hasattr(M, objects[i][2].obj, objects[i][2].attributes[k])
C18_TopicsOpaque ==
  [][\A t \in EmsTopics, p \in Payloads \ {InvalidUtf8} :
       Ems_OnMessage(t, p)
       => \A i \in 1..Len(objects) :
            \A k \in 1..Len(objects[i][2].attributes) :
              RegisteredAt(i, k, t)
              => Get(heap'[objects[i][2].obj], objects[i][2].attributes[k], None)
                   = decode(p)]_vars

(* C19: when on_connect is invoked with a non-zero result code the handler *)
(* issues no subscribe call and is not connected.                          *)
C19_NoSubscribeOnFailure ==
  (op[1] = "on_connect" /\ op[2] # 0) => calls = <<>> /\ conn # "connected"


(* C16: a periodic publisher is not ended by a failure to encode or        *)
(* publish one attribute: a publisher thread that ended with the exception *)
(* of json.dumps did so only after stop() was called.                      *)
StopCalled == IF prog = "ems" THEN ~running ELSE stop_flag
C16_FailedPublishKeepsLoop ==
  \A k \in 1..Len(threads) : threads[k].raised = TypeError => StopCalled

(* C17: a state entry is updated atomically with respect to other threads: *)
(* no step of the periodic publisher that reads attribute a, and no write  *)
(* of a by the main thread, happens while on_message has stored the value  *)
(* of a but not yet its time.                                              *)
Torn(a) == net.pc = "stamp" /\ net.attr = a
C17_EntriesAtomic ==
  [][\A a \in Attrs :
       \/ \E v \in PpcWriteValues : Ppc_MainWriteLocal(a, v)
       \/ \E k \in 1..Len(threads) :
            /\ Ppc_PublishBackgroundBroker(k)
            /\ threads[k].pc = "for"
            /\ config[threads[k].i][1] = a
       => ~Torn(a)]_vars

(* C20: a value an external publisher set, and no local write replaced,    *)
(* stays the stored value: the handler's own publications coming back      *)
(* from the broker do not revert it.                                       *)
C20_InboundNotReverted ==
  \A k \in 1..Len(net.inbound) :
    Get(data, net.inbound[k][1], None) = net.inbound[k][2]

(* C21: a registration made by the main thread while the periodic          *)
(* publisher is inside a pass over the registry does not abort the pass:   *)
(* no publisher thread ends with the RuntimeError of a dict that changed   *)
(* size during iteration.                                                  *)
C21_RegistrationKeepsPass ==
  \A k \in 1..Len(threads) : threads[k].raised # "RuntimeError"
====
